---- MODULE Spec2Model ----
(***************************************************************************)
(* The authorization relay of ga4-frontend: the OAuthGoogle component      *)
(* (/authorize and /auth/callback), the Payment component (/payment) and   *)
(* the router that mounts them.                                            *)
(*                                                                         *)
(* The repository holds two copies of OAuthGoogle: src/unnamed/part_001    *)
(* and src/src/components/Oauth.tsx.  The variable build says which copy   *)
(* the router mounts; every handler is modelled for both.                  *)
(*                                                                         *)
(* Strings are sequences of tokens (a token is one character, or one word  *)
(* that contains only unreserved characters).  A nullable string is None   *)
(* (null) or Some(s).                                                      *)
(***************************************************************************)
EXTENDS Integers, Sequences, FiniteSets, TLC

\* ------------------------------------------------------------------ bounds
\* Payment-verification POSTs that may be in flight at once.
MaxVerify == 2

\* ------------------------------------------------------- nullable strings
None == <<>>
Some(s) == <<s>>
\* JavaScript truthiness of a nullable string: null and "" are falsy.
Truthy(v) == v # None /\ v[1] # <<>>

\* --------------------------------------------------------------- OAuthParams
\* interface OAuthParams, in declaration (= Object.entries) order.
KeyOrder ==
  <<"client_id", "redirect_uri", "response_type", "state",
    "code_challenge", "code_challenge_method", "scope">>
Keys == {KeyOrder[i] : i \in 1..Len(KeyOrder)}

\* ---------------------------------------------------------- URL encoding
\* The characters of the model's alphabet that encodeURIComponent escapes,
\* with the two hex digits of their escape.
PctCode ==
  ("/" :> <<"2", "F">>) @@ ("?" :> <<"3", "F">>) @@ ("=" :> <<"3", "D">>) @@
  ("&" :> <<"2", "6">>) @@ ("+" :> <<"2", "B">>) @@ ("%" :> <<"2", "5">>) @@
  (" " :> <<"2", "0">>) @@ (":" :> <<"3", "A">>) @@ ("#" :> <<"2", "3">>)
Escaped == DOMAIN PctCode

RECURSIVE encodeURIComponent(_)
encodeURIComponent(s) ==
  IF s = <<>> THEN <<>>
  ELSE (IF Head(s) \in Escaped THEN <<"%">> \o PctCode[Head(s)]
        ELSE <<Head(s)>>) \o encodeURIComponent(Tail(s))

\* URLSearchParams decoding of one name or value: "+" is a space, %XX is
\* the escaped character, a "%" that starts no escape stays.
RECURSIVE FormDecode(_)
FormDecode(s) ==
  IF s = <<>> THEN <<>>
  ELSE IF Head(s) = "+" THEN <<" ">> \o FormDecode(Tail(s))
  ELSE IF /\ Head(s) = "%" /\ Len(s) >= 3
          /\ \E c \in Escaped : PctCode[c] = <<s[2], s[3]>>
       THEN <<CHOOSE c \in Escaped : PctCode[c] = <<s[2], s[3]>> >>
            \o FormDecode(SubSeq(s, 4, Len(s)))
  ELSE <<Head(s)>> \o FormDecode(Tail(s))

\* Index of the first occurrence of token c in s, 0 when there is none.
IndexOf(s, c) ==
  LET at == {i \in 1..Len(s) : s[i] = c} IN
  IF at = {} THEN 0 ELSE CHOOSE i \in at : \A j \in at : i <= j

RECURSIVE SplitOn(_, _)
SplitOn(s, sep) ==
  LET i == IndexOf(s, sep) IN
  IF i = 0 THEN <<s>>
  ELSE <<SubSeq(s, 1, i - 1)>> \o SplitOn(SubSeq(s, i + 1, Len(s)), sep)

\* new URLSearchParams(search): the list of decoded <<name, value>> pairs.
RECURSIVE ParsePieces(_)
ParsePieces(pieces) ==
  IF pieces = <<>> THEN <<>>
  ELSE LET p == Head(pieces)
           i == IndexOf(p, "=")
           name == IF i = 0 THEN p ELSE SubSeq(p, 1, i - 1)
           value == IF i = 0 THEN <<>> ELSE SubSeq(p, i + 1, Len(p))
       IN (IF p = <<>> THEN <<>>
           ELSE << <<FormDecode(name), FormDecode(value)>> >>)
          \o ParsePieces(Tail(pieces))

URLSearchParams(query) ==
  LET body == IF query # <<>> /\ Head(query) = "?" THEN Tail(query)
              ELSE query
  IN ParsePieces(SplitOn(body, "&"))

\* URLSearchParams.get: the first value under the name, or null.
SearchGet(params, name) ==
  IF \E i \in 1..Len(params) : params[i][1] = <<name>>
  THEN Some(params[CHOOSE i \in 1..Len(params) :
                     /\ params[i][1] = <<name>>
                     /\ \A j \in 1..(i - 1) : params[j][1] # <<name>>][2])
  ELSE None

\* URLSearchParams.set on a list of <<key, value>> pairs: the first pair of
\* that key gets the value and later ones go, or the pair is appended.
SearchSet(params, key, value) ==
  IF \E i \in 1..Len(params) : params[i][1] = key
  THEN LET first == CHOOSE i \in 1..Len(params) :
                      /\ params[i][1] = key
                      /\ \A j \in 1..(i - 1) : params[j][1] # key
       IN SelectSeq([i \in 1..Len(params) |->
                       IF i = first THEN <<key, value>>
                       ELSE IF params[i][1] = key THEN <<>> ELSE params[i]],
                    LAMBDA p : p # <<>>)
  ELSE Append(params, <<key, value>>)

\* ------------------------------------------------------------------- JSON
\* JSON.stringify of an OAuthParams object: its members in insertion order,
\* null as the literal null, a string as a quoted string.
JSONValue_EmptyAsNull(v) ==
  IF v = None \/ v = Some(<<>>) THEN <<"null">> ELSE <<"string", v[1]>>
JSONValue(v) == IF v = None THEN <<"null">> ELSE <<"string", v[1]>>
JSONStringify(obj) ==
  [i \in 1..Len(KeyOrder) |-> <<KeyOrder[i], JSONValue(obj[KeyOrder[i]])>>]

\* JSON.parse of such a text: the object with the members the text has.
JSONMember(text, k) ==
  LET i == CHOOSE j \in 1..Len(text) : text[j][1] = k IN
  IF text[i][2][1] = "null" THEN None ELSE Some(text[i][2][2])
JSONParse(text) ==
  [k \in {text[i][1] : i \in 1..Len(text)} |-> JSONMember(text, k)]


\* ------------------------------------------------------------------ inputs
\* Redirect targets a downstream client may ask for: x:/d and one that
\* holds every reserved character of the alphabet, x:/d?a=b&c+%26 #.
UriPlain == <<"x", ":", "/", "d">>
UriReserved ==
  <<"x", ":", "/", "d", "?", "a", "=", "b", "&", "c", "+", "%", "2", "6",
    " ", "#">>
\* A target that no authorization request of the model asks for.
UriOther == <<"e", ":", "/", "v">>

\* The optional fields state, code_challenge, code_challenge_method, scope
\* of an inbound request, and whether a parameter foreign to the request
\* (foo=b) rides along.
Optionals ==
  { [state |-> None, code_challenge |-> None,
     code_challenge_method |-> None, scope |-> None, foo |-> FALSE],
    [state |-> Some(<<"s">>), code_challenge |-> Some(<<"c">>),
     code_challenge_method |-> Some(<<"S256">>), scope |-> Some(<<"r">>),
     foo |-> TRUE],
    [state |-> Some(<<>>), code_challenge |-> Some(<<"c">>),
     code_challenge_method |-> None, scope |-> Some(<<>>), foo |-> FALSE],
    [state |-> None, code_challenge |-> None,
     code_challenge_method |-> Some(<<"S256">>), scope |-> Some(<<"r">>),
     foo |-> TRUE] }

RequestFields ==
  { [client_id |-> c, redirect_uri |-> u, response_type |-> t,
     state |-> o.state, code_challenge |-> o.code_challenge,
     code_challenge_method |-> o.code_challenge_method, scope |-> o.scope,
     foo |-> IF o.foo THEN Some(<<"b">>) ELSE None] :
      c \in {None, Some(<<>>), Some(<<"abc">>)},
      u \in {None, Some(<<>>), Some(UriPlain), Some(UriReserved)},
      t \in {None, Some(<<"code">>), Some(<<"token">>)},
      o \in Optionals }

\* The query string a client writes for the fields f: ?k=v&k=v..., each
\* value percent-encoded, absent fields left out.
RECURSIVE QueryPairs(_, _)
QueryPairs(f, ks) ==
  IF ks = <<>> THEN <<>>
  ELSE (IF f[Head(ks)] = None THEN <<>>
        ELSE <<"&", Head(ks), "=">> \o encodeURIComponent(f[Head(ks)][1]))
       \o QueryPairs(f, Tail(ks))
QueryString(f, ks) ==
  LET s == QueryPairs(f, ks) IN IF s = <<>> THEN <<>> ELSE <<"?">> \o Tail(s)

AuthorizeSearches == {QueryString(f, KeyOrder \o <<"foo">>) : f \in RequestFields}
PaymentSearches ==
  {QueryString([redirect_uri |-> u], <<"redirect_uri">>) :
     u \in {None, Some(<<>>), Some(UriPlain), Some(UriReserved), Some(UriOther)}}

\* What the backend may answer to the callback POST.  "ok" is a 2xx answer
\* with the parsed body in data; "http" is an answer with an error status
\* (axios rejects, err.response is set); "network" and "timeout" are
\* rejections with no response.
BackendUrl == <<"b", ":", "/", "n">>
PostOutcomes ==
  { [kind |-> "ok", isNull |-> TRUE, success |-> FALSE, redirectUrl |-> None],
    [kind |-> "ok", isNull |-> FALSE, success |-> TRUE, redirectUrl |-> None],
    [kind |-> "ok", isNull |-> FALSE, success |-> FALSE, redirectUrl |-> None],
    [kind |-> "ok", isNull |-> FALSE, success |-> TRUE,
     redirectUrl |-> Some(BackendUrl)],
    [kind |-> "ok", isNull |-> FALSE, success |-> FALSE,
     redirectUrl |-> Some(BackendUrl)],
    [kind |-> "http", status |-> "500", message |-> Some(<<"denied">>),
     isNull |-> FALSE, success |-> FALSE, redirectUrl |-> None],
    [kind |-> "http", status |-> "401", message |-> None,
     isNull |-> TRUE, success |-> FALSE, redirectUrl |-> None],
    [kind |-> "network", isNull |-> TRUE, success |-> FALSE,
     redirectUrl |-> None],
    [kind |-> "timeout", isNull |-> TRUE, success |-> FALSE,
     redirectUrl |-> None] }

\* What /payment/verify may answer: the parsed body's status member, or how
\* the fetch chain fails.
VerifyOutcomes ==
  { [kind |-> "json", status |-> Some(<<"success">>)],
    [kind |-> "json", status |-> Some(<<"failed">>)],
    [kind |-> "json", status |-> Some(<<"Success">>)],
    [kind |-> "json", status |-> Some(<<"true">>)],
    [kind |-> "json", status |-> None],
    [kind |-> "jsonNull"],
    [kind |-> "unparsable"],
    [kind |-> "network"] }


\* ------------------------------------------------------ OAuthGoogle: capture
\* The seven urlParams.get calls of the mount effect.
\* CaptureParams that loses the scope.
CaptureParams_DropsScope(s) ==
  LET urlParams == URLSearchParams(s) IN
  [client_id |-> SearchGet(urlParams, "client_id"),
   redirect_uri |-> SearchGet(urlParams, "redirect_uri"),
   response_type |-> SearchGet(urlParams, "response_type"),
   state |-> SearchGet(urlParams, "state"),
   code_challenge |-> SearchGet(urlParams, "code_challenge"),
   code_challenge_method |-> SearchGet(urlParams, "code_challenge_method"),
   scope |-> None]

CaptureParams(s) ==
  LET urlParams == URLSearchParams(s) IN
  [client_id |-> SearchGet(urlParams, "client_id"),
   redirect_uri |-> SearchGet(urlParams, "redirect_uri"),
   response_type |-> SearchGet(urlParams, "response_type"),
   state |-> SearchGet(urlParams, "state"),
   code_challenge |-> SearchGet(urlParams, "code_challenge"),
   code_challenge_method |-> SearchGet(urlParams, "code_challenge_method"),
   scope |-> SearchGet(urlParams, "scope")]

\* IsValidRequest without the redirect_uri test.
IsValidRequest_AnyResponseType(params) ==
  /\ Truthy(params.client_id)
  /\ Truthy(params.redirect_uri)
IsValidRequest_NoRedirectUri(params) ==
  /\ Truthy(params.client_id)
  /\ params.response_type = Some(<<"code">>)

\* The negation of the mount effect's validation test.
IsValidRequest(params) ==
  /\ Truthy(params.client_id)
  /\ Truthy(params.redirect_uri)
  /\ params.response_type = Some(<<"code">>)

\* The capture of every query string of the model, computed once.
CapturedTable == [s \in AuthorizeSearches |-> CaptureParams(s)]
Captured(s) == CapturedTable[s]

\* ------------------------------------------------------------------- state
VARIABLES
  build,        \* the OAuthGoogle copy the router mounts
  path,         \* where the tab is: a route of the app, "provider" (the
                \* identity provider's pages) or "external" (another site)
  extUrl,       \* the URL of that other site
  search,       \* window.location.search on a route of the app
  isLoading,    \* OAuthGoogle state (useState)
  oauthParams,  \* OAuthGoogle state: None or Some(request)
  error,        \* OAuthGoogle state: <<>> is null
  pc,           \* the await an OAuthGoogle handler is suspended at
  cbParams,     \* handleSupabaseCallback's local oauthParams
  callbackUrl,  \* handleSupabaseCallback's callbackUrl.searchParams
  storage,      \* sessionStorage item oauth_params: <<>> is no item
  idSession,    \* whether the identity layer holds an established session
  redirectUri,  \* Payment's redirectUri
  checkout,     \* whether the Razorpay checkout is open
  verifying,    \* /payment/verify POSTs in flight
  gate,         \* history: how the Payment page was entered
  handedOff,    \* history: a callback POST completed since the last write
  written,      \* history: the request the last setItem serialized, None
                \* once the item is removed
  ev            \* history: the handler that ran last, the calls it made
                \* and the answer it was resumed with

vars ==
  <<build, path, extUrl, search, isLoading, oauthParams, error, pc,
    cbParams, callbackUrl, storage, idSession, redirectUri, checkout,
    verifying, gate, handedOff, written, ev>>

Builds == {"part_001", "Oauth.tsx"}
NoItem == <<>>
NoError == <<>>
NoGate == [via |-> "none", uri |-> None]
NoArg == [kind |-> "none"]
Event(h, fx, arg) == [h |-> h, fx |-> fx, arg |-> arg]

\* ---------------------------------------------------------------- messages
ErrInvalidRequest == <<"Invalid OAuth request: Missing required parameters">>
ErrNoParams == <<"No OAuth parameters found">>
ErrLoginFailed_Bare(message) == message
ErrLoginFailed(message) == <<"Login failed: ">> \o message
ErrLoginUnexpected == <<"An unexpected error occurred during login">>
ErrNoSession == <<"Failed to authenticate with Google">>
ErrSessionExpired == <<"OAuth session expired. Please try again.">>
ErrAuthUnexpected == <<"An unexpected error occurred during authentication">>
ErrAuthFailed(b, status, message) ==
  IF b = "part_001"
  THEN <<"Authentication failed (", status, "): ">> \o message
  ELSE <<"Authentication failed: ">> \o message


Init ==
  /\ build \in Builds
  /\ path = "/"
  /\ extUrl = <<>>
  /\ search = <<>>
  /\ isLoading = FALSE
  /\ oauthParams = None
  /\ error = NoError
  /\ pc = "idle"
  /\ cbParams = None
  /\ callbackUrl = <<>>
  /\ storage = NoItem
  /\ idSession = FALSE
  /\ redirectUri = <<>>
  /\ checkout = FALSE
  /\ verifying = 0
  /\ gate = NoGate
  /\ handedOff = FALSE
  /\ written = None
  /\ ev = Event("init", <<>>, NoArg)

\* The tab moves to a location; the tab stays where it is.
Goto(p, s, u) == path' = p /\ search' = s /\ extUrl' = u
Stay == UNCHANGED <<path, search, extUrl>>

\* A document that is unloaded, or a component that is unmounted, takes its
\* state and its pending continuations with it.
OAuthFresh ==
  /\ isLoading' = FALSE
  /\ oauthParams' = None
  /\ error' = NoError
  /\ pc' = "idle"
  /\ cbParams' = None
  /\ callbackUrl' = <<>>
PaymentFresh ==
  /\ redirectUri' = <<>>
  /\ checkout' = FALSE
  /\ verifying' = 0
  /\ gate' = NoGate

\* sessionStorage.removeItem('oauth_params'): what is left of the item.
RemoveItem_Kept(item) == item
RemoveItem(item) == NoItem
\* sessionStorage after setItem: the value replaces whatever was stored.
SetItem_KeepsFirst(item, value) == IF item = NoItem THEN value ELSE item
SetItem_Nothing(item, value) == item
SetItem(item, value) == value
\* sessionStorage after getItem: a read leaves the item where it is.
AfterGetItem_Removes(item) == NoItem
AfterGetItem(item) == item

\* The browser loads /authorize with a query string: OAuthGoogle mounts and
\* its effect captures and validates the request.
LoadAuthorize(s) ==
  LET params == Captured(s) IN
  /\ Goto("/authorize", s, <<>>)
  /\ isLoading' = FALSE
  /\ pc' = "idle"
  /\ cbParams' = None
  /\ callbackUrl' = <<>>
  /\ IF ~IsValidRequest(params)
     THEN /\ error' = ErrInvalidRequest
          /\ oauthParams' = None
          /\ ev' = Event("useEffect", <<"setError">>, NoArg)
     ELSE /\ error' = NoError
          /\ oauthParams' = Some(params)
          /\ ev' = Event("useEffect", <<"setOauthParams">>, NoArg)
  /\ PaymentFresh
  /\ UNCHANGED <<build, storage, idSession, handedOff, written>>

\* The start of handleSupabaseCallback, up to its first await.
CallbackMount ==
  /\ Goto("/auth/callback", <<>>, <<>>)
  /\ isLoading' = TRUE
  /\ error' = NoError
  /\ oauthParams' = None
  /\ pc' = "getSession"
  /\ cbParams' = None
  /\ callbackUrl' = <<>>
  /\ ev' = Event("useEffect", <<"getSession">>, NoArg)
  /\ PaymentFresh

\* The browser loads /auth/callback: a reload, the back button, a bookmark.
LoadCallback ==
  /\ CallbackMount
  /\ UNCHANGED <<build, storage, idSession, handedOff, written>>

\* The identity provider authenticated the user and sends the browser back
\* to the redirectTo URL.
ProviderReturn ==
  /\ path = "provider"
  /\ idSession' = TRUE
  /\ CallbackMount
  /\ UNCHANGED <<build, storage, handedOff, written>>

\* ------------------------------------------------------ OAuthGoogle: login
\* if (error) return the error view: with an error set the component renders
\* the message and the Go Back button and nothing else.
ErrorViewShown_Never == FALSE
ErrorViewShown == error # NoError

\* The login button is rendered on /authorize when no error is shown, and is
\* disabled while isLoading or without oauthParams.
LoginEnabled_WhileLoading ==
  /\ path = "/authorize"
  /\ ~ErrorViewShown
  /\ oauthParams # None
LoginEnabled ==
  /\ path = "/authorize"
  /\ ~ErrorViewShown
  /\ ~isLoading
  /\ oauthParams # None

\* handleLogin, up to its await.
HandleLogin ==
  /\ LoginEnabled
  /\ IF oauthParams = None
     THEN /\ error' = ErrNoParams
          /\ ev' = Event("handleLogin", <<"setError">>, NoArg)
          /\ UNCHANGED <<isLoading, storage, pc, handedOff, written>>
     ELSE /\ isLoading' = TRUE
          /\ error' = NoError
          /\ storage' = SetItem(storage, JSONStringify(oauthParams[1]))
          /\ written' = oauthParams
          /\ pc' = "signIn"
          /\ handedOff' = FALSE
          /\ ev' = Event("handleLogin", <<"setItem", "signInWithOAuth">>,
                         IF storage = NoItem THEN NoArg
                         ELSE [kind |-> "overwrite", prior |-> storage])
  /\ Stay
  /\ UNCHANGED <<build, oauthParams, cbParams, callbackUrl, idSession,
                 redirectUri, checkout, verifying, gate>>

SignInOutcomes ==
  { [kind |-> "redirect"],
    [kind |-> "error", message |-> <<"provider is not enabled">>],
    [kind |-> "throws"] }

\* handleLogin after signInWithOAuth settled.  Without an error the library
\* has sent the browser to the provider and the handler does nothing more.
SignInSettles(o) ==
  /\ pc = "signIn"
  /\ CASE o.kind = "redirect" ->
            /\ Goto("provider", <<>>, <<>>)
            /\ OAuthFresh
            /\ ev' = Event("signInWithOAuth", <<"href">>, o)
       [] o.kind = "error" ->
            /\ error' = ErrLoginFailed(o.message)
            /\ isLoading' = FALSE
            /\ pc' = "idle"
            /\ ev' = Event("handleLogin", <<"setError">>, o)
            /\ Stay
            /\ UNCHANGED <<oauthParams, cbParams, callbackUrl>>
       [] o.kind = "throws" ->
            /\ error' = ErrLoginUnexpected
            /\ isLoading' = FALSE
            /\ pc' = "idle"
            /\ ev' = Event("handleLogin", <<"setError">>, o)
            /\ Stay
            /\ UNCHANGED <<oauthParams, cbParams, callbackUrl>>
  /\ UNCHANGED <<build, storage, idSession, redirectUri, checkout, verifying,
                 gate, handedOff, written>>

\* --------------------------------------------------- OAuthGoogle: callback
\* Object.entries of a parsed request: its members in insertion order.
ObjectEntries(obj) ==
  LET ks == SelectSeq(KeyOrder, LAMBDA k : k \in DOMAIN obj) IN
  [i \in 1..Len(ks) |-> <<ks[i], obj[ks[i]]>>]

\* AppendTruthy with a test for null in place of the truthiness test.
RECURSIVE AppendNonNull(_, _)
AppendNonNull(searchParams, entries) ==
  IF entries = <<>> THEN searchParams
  ELSE LET e == Head(entries) IN
       AppendNonNull(IF e[2] # None THEN SearchSet(searchParams, e[1], e[2][1])
                     ELSE searchParams,
                     Tail(entries))

\* The forEach that echoes the request on the callback URL.
RECURSIVE AppendTruthy(_, _)
AppendTruthy(searchParams, entries) ==
  IF entries = <<>> THEN searchParams
  ELSE LET e == Head(entries) IN
       AppendTruthy(IF Truthy(e[2]) THEN SearchSet(searchParams, e[1], e[2][1])
                    ELSE searchParams,
                    Tail(entries))
CallbackSearchParams(obj) == AppendTruthy(<<>>, ObjectEntries(obj))

SessionOutcomes ==
  {[kind |-> "session"], [kind |-> "none"], [kind |-> "error"],
   [kind |-> "throws"]}

\* The test after getSession: sessionError || !data.session.
NoSession_ErrorOnly(o) == o.kind = "error"
NoSession(o) == o.kind \in {"none", "error"}

\* The test after getItem: !storedParams is false.
HasStoredParams_Always(item) == TRUE
HasStoredParams(item) == item # NoItem

\* handleSupabaseCallback from the answer of getSession to the POST.
SessionSettles(o) ==
  /\ pc = "getSession"
  /\ o.kind = "session" => idSession
  /\ IF o.kind = "throws"
     THEN /\ error' = ErrAuthUnexpected
          /\ isLoading' = FALSE
          /\ pc' = "idle"
          /\ ev' = Event("handleSupabaseCallback", <<"setError">>, o)
          /\ UNCHANGED <<cbParams, callbackUrl, storage>>
     ELSE IF NoSession(o)
     THEN /\ error' = ErrNoSession
          /\ isLoading' = FALSE
          /\ pc' = "idle"
          /\ ev' = Event("handleSupabaseCallback", <<"setError">>, o)
          /\ UNCHANGED <<cbParams, callbackUrl, storage>>
     ELSE IF ~HasStoredParams(storage)
     THEN /\ error' = ErrSessionExpired
          /\ isLoading' = FALSE
          /\ pc' = "idle"
          /\ ev' = Event("handleSupabaseCallback",
                         <<"getItem", "setError">>, o)
          /\ storage' = AfterGetItem(storage)
          /\ UNCHANGED <<cbParams, callbackUrl>>
     ELSE /\ cbParams' = Some(JSONParse(storage))
          /\ callbackUrl' = CallbackSearchParams(JSONParse(storage))
          /\ pc' = "post"
          /\ ev' = Event("handleSupabaseCallback", <<"getItem", "post">>, o)
          /\ storage' = AfterGetItem(storage)
          /\ UNCHANGED <<error, isLoading>>
  /\ Stay
  /\ UNCHANGED <<build, oauthParams, idSession, redirectUri,
                 checkout, verifying, gate, handedOff, written>>

\* PaymentLocation without the encoding of the value.
PaymentLocation_Raw(uri) ==
  <<"/payment", "?", "redirect_uri", "=">>
  \o (IF Truthy(uri) THEN uri[1] ELSE <<>>)

\* The argument of navigate after a completed POST.
PaymentLocation(uri) ==
  <<"/payment", "?", "redirect_uri", "=">>
  \o encodeURIComponent(IF Truthy(uri) THEN uri[1] ELSE <<>>)

\* The router's split of a location into pathname and search.
ParsePath(to) ==
  LET h == IndexOf(to, "#")
      noHash == IF h = 0 THEN to ELSE SubSeq(to, 1, h - 1)
      q == IndexOf(noHash, "?")
  IN [pathname |-> IF q = 0 THEN noHash ELSE SubSeq(noHash, 1, q - 1),
      search |-> IF q = 0 THEN <<>> ELSE SubSeq(noHash, q, Len(noHash))]

\* The <Routes> of App: the route a pathname selects ("/" stands for every
\* pathname that selects none).
Routes == {"/authorize", "/auth/callback", "/payment"}
RouteOf(pathname) ==
  IF Len(pathname) = 1 /\ pathname[1] \in Routes THEN pathname[1] ELSE "/"

\* Payment's redirectUri: searchParams.get('redirect_uri') || "".
PaymentRedirectUri(s) ==
  LET v == SearchGet(URLSearchParams(s), "redirect_uri") IN
  IF Truthy(v) THEN v[1] ELSE <<>>

\* Where navigate(`/payment?redirect_uri=...`) lands for each redirect_uri a
\* stored request can have: the route, the search, and the redirectUri the
\* Payment component reads from it.
StoredUris ==
  {None, Some(<<>>), Some(UriPlain), Some(UriReserved), Some(UriOther)}
NavigateTable ==
  [u \in StoredUris |->
     LET to == ParsePath(PaymentLocation(u)) IN
     [route |-> RouteOf(to.pathname),
      search |-> to.search,
      redirectUri |-> PaymentRedirectUri(to.search)]]
Navigate(u) == NavigateTable[u]

\* Whether the await of axios.post returns: a 2xx answer, whatever its body.
PostResolves_AnyResponse(o) == o.kind \in {"ok", "http"}
PostResolves(o) == o.kind = "ok"

\* What err.message says when the backend sent no message of its own.
AxiosMessage(b, o) ==
  CASE o.kind = "http" ->
         IF Truthy(o.message) THEN o.message[1]
         ELSE <<"Request failed with status code ", o.status>>
    [] o.kind = "timeout" ->
         IF b = "part_001" THEN <<"timeout of 15000ms exceeded">>
         ELSE <<"timeout of 10000ms exceeded">>
    [] OTHER -> <<"Network Error">>
AxiosStatus(o) == IF o.kind = "http" THEN o.status ELSE "undefined"

\* The continuation of the POST in part_001: clean up, go to /payment.
CallbackDonePart001(o) ==
  LET to == Navigate(cbParams[1].redirect_uri) IN
  /\ storage' = RemoveItem(storage)
  /\ written' = IF storage' = NoItem THEN None ELSE written
  /\ handedOff' = TRUE
  /\ Goto(to.route, to.search, <<>>)
  /\ OAuthFresh
  /\ redirectUri' = to.redirectUri
  /\ checkout' = FALSE
  /\ verifying' = 0
  /\ gate' = [via |-> "callback", uri |-> cbParams[1].redirect_uri]
  /\ ev' = Event("handleSupabaseCallback", <<"removeItem", "navigate">>, o)

\* The continuation of the POST in Oauth.tsx: clean up, follow the backend's
\* redirectUrl when it gave one.
CallbackDoneOauthTsx(o) ==
  /\ storage' = RemoveItem(storage)
  /\ written' = IF storage' = NoItem THEN None ELSE written
  /\ handedOff' = TRUE
  /\ IF o.isNull
     THEN \* response.data.redirectUrl of a null body throws; the catch runs
          /\ error' = ErrAuthUnexpected
          /\ isLoading' = FALSE
          /\ pc' = "idle"
          /\ ev' = Event("handleSupabaseCallback",
                         <<"removeItem", "setError">>, o)
          /\ Stay
          /\ UNCHANGED <<oauthParams, cbParams, callbackUrl>>
     ELSE IF Truthy(o.redirectUrl)
     THEN /\ Goto("external", <<>>, o.redirectUrl[1])
          /\ OAuthFresh
          /\ ev' = Event("handleSupabaseCallback", <<"removeItem", "href">>, o)
     ELSE /\ pc' = "idle"
          /\ ev' = Event("handleSupabaseCallback", <<"removeItem">>, o)
          /\ Stay
          /\ UNCHANGED <<isLoading, oauthParams, error, cbParams, callbackUrl>>
  /\ UNCHANGED <<redirectUri, checkout, verifying, gate>>

\* The catch of handleSupabaseCallback for a rejected POST.
CallbackFailed(o) ==
  /\ error' = ErrAuthFailed(build, AxiosStatus(o), AxiosMessage(build, o))
  /\ isLoading' = FALSE
  /\ pc' = "idle"
  /\ ev' = Event("handleSupabaseCallback", <<"setError">>, o)
  /\ Stay
  /\ UNCHANGED <<oauthParams, cbParams, callbackUrl, storage, redirectUri,
                 checkout, verifying, gate, handedOff, written>>

\* handleSupabaseCallback after the POST settled.
PostSettles(o) ==
  /\ pc = "post"
  /\ IF PostResolves(o)
     THEN IF build = "part_001" THEN CallbackDonePart001(o)
          ELSE CallbackDoneOauthTsx(o)
     ELSE CallbackFailed(o)
  /\ UNCHANGED <<build, idSession>>

\* The error view's Go Back button.
Restart ==
  /\ path \in {"/authorize", "/auth/callback"}
  /\ ErrorViewShown
  /\ IF build = "part_001"
     THEN /\ storage' = RemoveItem(storage)
          /\ written' = IF storage' = NoItem THEN None ELSE written
          /\ ev' = Event("restart", <<"removeItem", "href">>, NoArg)
     ELSE /\ UNCHANGED <<storage, written>>
          /\ ev' = Event("restart", <<"href">>, NoArg)
  /\ Goto("/", <<>>, <<>>)
  /\ OAuthFresh
  /\ PaymentFresh
  /\ UNCHANGED <<build, idSession, handedOff>>

\* ------------------------------------------------------------------ Payment
\* The browser loads /payment with a query string: Payment mounts.
LoadPayment(s) ==
  /\ Goto("/payment", s, <<>>)
  /\ OAuthFresh
  /\ redirectUri' = PaymentRedirectUri(s)
  /\ checkout' = FALSE
  /\ verifying' = 0
  /\ gate' = [via |-> "load", uri |-> None]
  /\ ev' = Event("load", <<>>, NoArg)
  /\ UNCHANGED <<build, storage, idSession, handedOff, written>>

PaymentUnchanged_ClearsContext ==
  /\ storage' = NoItem
  /\ UNCHANGED <<build, path, search, extUrl, isLoading, oauthParams, error,
                 pc, cbParams, callbackUrl, idSession, redirectUri,
                 gate, handedOff, written>>
PaymentUnchanged ==
  UNCHANGED <<build, path, search, extUrl, isLoading, oauthParams, error,
              pc, cbParams, callbackUrl, storage, idSession, redirectUri,
              gate, handedOff, written>>

\* handlePayment: the Proceed with Payment button opens the checkout.
HandlePayment ==
  /\ path = "/payment"
  /\ ~checkout
  /\ checkout' = TRUE
  /\ ev' = Event("handlePayment", <<"open">>, NoArg)
  /\ UNCHANGED verifying
  /\ PaymentUnchanged

\* modal.ondismiss: the user closes the checkout without paying.
CheckoutDismiss ==
  /\ path = "/payment"
  /\ checkout
  /\ checkout' = FALSE
  /\ ev' = Event("ondismiss", <<>>, NoArg)
  /\ UNCHANGED verifying
  /\ PaymentUnchanged

\* options.handler: the checkout reports a payment; the verification POST
\* is sent.
CheckoutPaid ==
  /\ path = "/payment"
  /\ checkout
  /\ verifying < MaxVerify
  /\ checkout' = FALSE
  /\ verifying' = verifying + 1
  /\ ev' = Event("handler", <<"fetch">>, NoArg)
  /\ PaymentUnchanged

\* VerifiedSuccess with a truthiness test in place of the comparison.
VerifiedSuccess_Truthy(o) == o.kind = "json" /\ Truthy(o.status)

\* The test of the second then: data.status === 'success'.  A body that is
\* no JSON, or a null body whose status is read, throws instead.
VerifiedSuccess(o) == o.kind = "json" /\ o.status = Some(<<"success">>)

\* The then/catch chain of the verification POST.
VerifySettles(o) ==
  /\ path = "/payment"
  /\ verifying > 0
  /\ IF VerifiedSuccess(o)
     THEN IF redirectUri = <<>>
          THEN \* href = "" is the current URL: the page loads again
               /\ checkout' = FALSE
               /\ verifying' = 0
               /\ gate' = [via |-> "load", uri |-> None]
               /\ ev' = Event("handler.then", <<"href">>, o)
               /\ Stay
               /\ UNCHANGED redirectUri
          ELSE /\ Goto("external", <<>>, redirectUri)
               /\ redirectUri' = <<>>
               /\ checkout' = FALSE
               /\ verifying' = 0
               /\ ev' = Event("handler.then", <<"href">>, o)
               /\ UNCHANGED gate
     ELSE /\ verifying' = verifying - 1
          /\ ev' = Event("handler.then", <<"alert">>, o)
          /\ Stay
          /\ UNCHANGED <<redirectUri, checkout, gate>>
  /\ UNCHANGED <<build, isLoading, oauthParams, error, pc, cbParams,
                 callbackUrl, storage, idSession, handedOff, written>>

\* The href handleBackToHome assigns.
BackToHomeTarget_Authorize == "/authorize"
BackToHomeTarget == "/"

\* handleBackToHome.
HandleBackToHome ==
  /\ path = "/payment"
  /\ ~checkout
  /\ Goto(BackToHomeTarget, <<>>, <<>>)
  /\ OAuthFresh
  /\ PaymentFresh
  /\ ev' = Event("handleBackToHome", <<"href">>, NoArg)
  /\ UNCHANGED <<build, storage, idSession, handedOff, written>>

\* ------------------------------------------------------------ specification
Next ==
  \/ \E s \in AuthorizeSearches : LoadAuthorize(s)
  \/ LoadCallback
  \/ \E s \in PaymentSearches : LoadPayment(s)
  \/ ProviderReturn
  \/ HandleLogin
  \/ \E o \in SignInOutcomes : SignInSettles(o)
  \/ \E o \in SessionOutcomes : SessionSettles(o)
  \/ \E o \in PostOutcomes : PostSettles(o)
  \/ Restart
  \/ HandlePayment
  \/ CheckoutDismiss
  \/ CheckoutPaid
  \/ \E o \in VerifyOutcomes : VerifySettles(o)
  \/ HandleBackToHome

Spec == Init /\ [][Next]_vars

\* The same program with three of the /authorize query strings (a request
\* with no optional field, one with every field, and one with no
\* redirect_uri), for the properties of its infinite behaviours.
LiveSearches ==
  {QueryString(f, KeyOrder \o <<"foo">>) :
     f \in {r \in RequestFields :
              /\ r.client_id = Some(<<"abc">>)
              /\ r.response_type = Some(<<"code">>)
              /\ \/ r.redirect_uri = Some(UriPlain) /\ r.scope = None
                 \/ r.redirect_uri = Some(UriReserved) /\ r.state = Some(<<"s">>)
                 \/ r.redirect_uri = None /\ r.state = Some(<<"s">>)}}
NextLive ==
  \/ \E s \in LiveSearches : LoadAuthorize(s)
  \/ LoadCallback
  \/ \E s \in PaymentSearches : LoadPayment(s)
  \/ ProviderReturn
  \/ HandleLogin
  \/ \E o \in SignInOutcomes : SignInSettles(o)
  \/ \E o \in SessionOutcomes : SessionSettles(o)
  \/ \E o \in PostOutcomes : PostSettles(o)
  \/ Restart
  \/ HandlePayment
  \/ CheckoutDismiss
  \/ CheckoutPaid
  \/ \E o \in VerifyOutcomes : VerifySettles(o)
  \/ HandleBackToHome

\* The awaited calls of handleSupabaseCallback settle: getSession answers,
\* and axios.post answers or runs into its timeout.
FairSpec ==
  /\ Init
  /\ [][NextLive]_vars
  /\ WF_vars(\E o \in SessionOutcomes : SessionSettles(o))
  /\ WF_vars(\E o \in PostOutcomes : PostSettles(o))


\* ================================================================== claims
\* The fields the downstream client put into the query string of the
\* current /authorize visit, read off the table of the model's inputs.
SentPairs ==
  {<<QueryString(f, KeyOrder \o <<"foo">>), f>> : f \in RequestFields}
Sent == (CHOOSE p \in SentPairs : p[1] = search)[2]
Missing(v) == v = None \/ v = Some(<<>>)
SentInvalid ==
  \/ Missing(Sent.client_id)
  \/ Missing(Sent.redirect_uri)
  \/ Sent.response_type # Some(<<"code">>)
InvalidVisit == path = "/authorize" /\ SentInvalid
SetItemStep == storage' # storage /\ storage' # NoItem

\* C1: on /authorize with client_id missing or empty, or redirect_uri
\* missing or empty, or response_type other than "code", the page is in the
\* error state with the message "Invalid OAuth request: Missing required
\* parameters", holds no request (oauthParams is null), and no step taken
\* from that visit writes the sessionStorage item.
C1_InvalidRequestRejected ==
  [][ /\ (path' = "/authorize"
           /\ (error' # ErrInvalidRequest \/ oauthParams' # None))
         => ~InvalidVisit'
      /\ SetItemStep => ~InvalidVisit ]_vars

\* C1 witness: ?client_id=abc&response_type=code was loaded while an earlier
\* visit's item is in the context.
C1_Witness ==
  /\ path = "/authorize"
  /\ search = <<"?", "client_id", "=", "abc", "&", "response_type", "=", "code">>
  /\ error = ErrInvalidRequest
  /\ storage # NoItem

\* C2: the tab leaves the payment page for the forwarded redirect_uri only
\* in the continuation of a verification POST whose body's status is exactly
\* "success"; a verification that settles in any other way navigates nowhere
\* and leaves the payment page and its redirectUri as they are.
C2_RedirectOnlyOnSuccess ==
  [][ /\ (path = "/payment" /\ path' = "external")
         => /\ ev'.h = "handler.then"
            /\ ev'.arg = [kind |-> "json", status |-> Some(<<"success">>)]
            /\ extUrl' = redirectUri
      /\ (path = "/payment" /\ ev'.h = "handler.then"
          /\ ev'.arg # [kind |-> "json", status |-> Some(<<"success">>)])
         => /\ path' = "/payment"
            /\ search' = search
            /\ redirectUri' = redirectUri
            /\ ev'.fx = <<"alert">> ]_vars

\* C2 witness: a verification answered with a body that has no status, and
\* the user is still on the payment page of a reconciled request.
C2_Witness ==
  /\ path = "/payment"
  /\ gate.via = "callback"
  /\ ev = Event("handler.then", <<"alert">>, [kind |-> "json", status |-> None])

\* C3 (as stated): whenever the callback POST completes at the transport
\* level, whatever its body, the continuation removes the sessionStorage item
\* and navigates to /payment with the request's redirect_uri, and navigates
\* nowhere else (not to a URL the backend supplied).
C3_CompletedPostGoesToPayment ==
  [][ (pc = "post" /\ ev'.h = "handleSupabaseCallback" /\ ev'.arg.kind = "ok")
      => /\ storage' = NoItem
         /\ path' = "/payment"
         /\ Some(redirectUri') = cbParams[1].redirect_uri
         /\ extUrl' = <<>>
         /\ ev'.fx = <<"removeItem", "navigate">> ]_vars

\* C3, the diverging state: the copy in components/Oauth.tsx has sent the tab
\* to the redirectUrl of the backend's body.
C3_BackendNavigation ==
  /\ build = "Oauth.tsx"
  /\ path = "external"
  /\ extUrl = BackendUrl
  /\ ev.h = "handleSupabaseCallback"
  /\ ev.arg.kind = "ok"

\* C4: once a callback POST has completed, the sessionStorage item is gone,
\* so a later run of the callback handler with a valid identity session sets
\* the error "OAuth session expired. Please try again." and sends no second
\* POST.
C4_SingleUse ==
  [][ /\ handedOff' => storage' = NoItem /\ pc' # "post"
      /\ (handedOff /\ pc = "getSession" /\ ev'.h = "handleSupabaseCallback"
          /\ ev'.arg.kind = "session")
         => /\ error' = ErrSessionExpired
            /\ ev'.fx = <<"getItem", "setError">>
            /\ pc' = "idle" ]_vars

\* C4 witness: the callback page was entered again after a completed POST and
\* shows the expiry message.
C4_Witness ==
  /\ handedOff
  /\ idSession
  /\ path = "/auth/callback"
  /\ error = ErrSessionExpired
  /\ ev = Event("handleSupabaseCallback", <<"getItem", "setError">>,
                [kind |-> "session"])

\* C5 (as stated): the payment page is only ever shown through the callback
\* handler's navigation after a completed POST, and its redirectUri is the
\* redirect_uri of the request that handler read.
C5_PaymentOnlyViaCallback ==
  path = "/payment" => gate.via = "callback" /\ gate.uri = Some(redirectUri)

\* C5, the diverging state: /payment was loaded directly with a redirect_uri
\* of the visitor's choosing and a verified payment sent the tab there.
C5_DirectEntryRedirects ==
  /\ path = "external"
  /\ extUrl = UriOther
  /\ gate.via = "load"
  /\ ev.h = "handler.then"

\* A step of the callback handler that settles its POST with outcome kinds K.
PostSettledWith(K) ==
  pc = "post" /\ ev'.h = "handleSupabaseCallback" /\ ev'.arg.kind \in K
PostRejections == {"http", "network", "timeout"}

\* C6 (as stated): once the callback handler has read the request, the
\* sessionStorage item is gone: never is a POST in flight, or a POST failed,
\* while the item is still stored.
C6_DeletedRightAfterRead ==
  cbParams # None => storage = NoItem

\* C6 (amended): reading the item does not delete it.  While the POST is in
\* flight the item is still stored and is the request that was read; a
\* rejected POST leaves it stored; only the continuation of a completed POST
\* removes it.
C6_DeletedOnCompletedPost ==
  [][ /\ pc' = "post"
         => /\ storage' # NoItem
            /\ cbParams' = Some(JSONParse(storage'))
      /\ PostSettledWith(PostRejections)
         => storage' = storage /\ storage' # NoItem
      /\ PostSettledWith({"ok"}) => storage' = NoItem ]_vars

\* C6 witness: the POST was rejected with a network error and the request
\* that was read is still stored.
C6_Witness ==
  /\ path = "/auth/callback"
  /\ ev.h = "handleSupabaseCallback"
  /\ ev.fx = <<"setError">>
  /\ ev.arg.kind = "network"
  /\ cbParams # None
  /\ storage # NoItem
  /\ JSONParse(storage) = cbParams[1]

\* C7 (as stated): when the POST is answered 2xx with a body whose success
\* member is false, an error is shown and the tab does not go to /payment.
C7_ReportedFailureSurfaced ==
  [][ (PostSettledWith({"ok"}) /\ ~ev'.arg.isNull /\ ~ev'.arg.success)
      => error' # NoError /\ path' # "/payment" ]_vars

\* C7, the diverging state: the backend answered success false and the tab
\* is on the payment page with no error shown.
C7_ReportedFailureAdvances ==
  /\ path = "/payment"
  /\ gate.via = "callback"
  /\ error = NoError
  /\ ev.h = "handleSupabaseCallback"
  /\ ev.arg.kind = "ok"
  /\ ~ev.arg.isNull
  /\ ~ev.arg.success

\* The pairs of the callback URL's query under a key.
UrlValues(k) ==
  {callbackUrl[i][2] :
     i \in {j \in 1..Len(callbackUrl) : callbackUrl[j][1] = k}}
UrlCount(k) ==
  Cardinality({j \in 1..Len(callbackUrl) : callbackUrl[j][1] = k})

\* C8: when the POST is sent, the query of the callback URL holds, for each
\* of the seven fields whose value read from sessionStorage is a non-empty
\* string, exactly one parameter with that value, no parameter for a field
\* that is null or empty, and no parameter of any other name.
C8_UrlEchoesNonEmptyFields ==
  pc = "post" =>
    /\ \A k \in Keys :
         IF cbParams[1][k] \in {None, Some(<<>>)}
         THEN UrlCount(k) = 0
         ELSE UrlCount(k) = 1 /\ UrlValues(k) = {cbParams[1][k][1]}
    /\ \A i \in 1..Len(callbackUrl) : callbackUrl[i][1] \in Keys

\* C8 witness: a request with an empty state and scope and no
\* code_challenge_method is echoed as four parameters.
C8_Witness ==
  /\ pc = "post"
  /\ cbParams[1].state = Some(<<>>)
  /\ cbParams[1].scope = Some(<<>>)
  /\ cbParams[1].redirect_uri = Some(UriReserved)
  /\ Len(callbackUrl) = 4

\* C9: what the callback handler reads from sessionStorage is, on each of
\* the seven fields, the request handleLogin wrote there (null stays null,
\* the empty string stays empty), as long as the item was not removed; once
\* removed, or never written, getItem finds nothing and no request is read.
C9_ContextRoundTrip ==
  [][ (ev'.h = "handleSupabaseCallback" /\ ev'.fx # <<>>
       /\ ev'.fx[1] = "getItem")
      => IF written = None
         THEN /\ storage = NoItem
              /\ cbParams' = None
              /\ ev'.fx = <<"getItem", "setError">>
         ELSE /\ cbParams' # None
              /\ DOMAIN cbParams'[1] = Keys
              /\ \A k \in Keys : cbParams'[1][k] = written[1][k] ]_vars

\* C9 witness: a request with a null member, an empty member and a
\* redirect_uri full of reserved characters was read back.
C9_Witness ==
  /\ ev.h = "handleSupabaseCallback"
  /\ ev.fx = <<"getItem", "post">>
  /\ written # None
  /\ written[1].code_challenge_method = None
  /\ written[1].state = Some(<<>>)
  /\ written[1].redirect_uri = Some(UriReserved)
  /\ cbParams = written

\* C10: loading /authorize with a valid query stores the seven fields as
\* sent in oauthParams and leaves sessionStorage as it was; no page load
\* writes sessionStorage; the item is written only by handleLogin, on the
\* /authorize page, with the valid request that page holds.
C10_CaptureWritesNothing ==
  [][ /\ (ev'.h = "useEffect" /\ ev'.fx = <<"setOauthParams">>)
         => /\ storage' = storage
            /\ ~SentInvalid'
            /\ oauthParams' # None
            /\ \A k \in Keys : oauthParams'[1][k] = Sent'[k]
      /\ ev'.h \in {"useEffect", "load"} => storage' = storage
      /\ SetItemStep
         => /\ ev'.h = "handleLogin"
            /\ path = "/authorize"
            /\ oauthParams # None
            /\ ~SentInvalid
            /\ \A k \in Keys : JSONMember(storage', k) = Sent[k] ]_vars

\* C10 witness: a valid request was captured while the item of an earlier
\* flow was in sessionStorage.
C10_Witness ==
  /\ path = "/authorize"
  /\ ev = Event("useEffect", <<"setOauthParams">>, NoArg)
  /\ oauthParams # None
  /\ oauthParams[1].redirect_uri = Some(UriReserved)
  /\ oauthParams[1].scope = Some(<<"r">>)
  /\ storage # NoItem
  /\ JSONMember(storage, "redirect_uri") = Some(UriPlain)

\* C11 (as stated): the Go Back button of the error view, whatever error
\* it is shown for, leaves sessionStorage without the item and sends the tab
\* to "/".
C11_RestartClearsContext ==
  [][ ev'.h = "restart" => storage' = NoItem /\ path' = "/" ]_vars

\* C11, the diverging state: in the Oauth.tsx copy the POST failed, Go Back
\* was pressed, and the request that was read is still stored.
C11_StaleRequestSurvives ==
  /\ build = "Oauth.tsx"
  /\ path = "/"
  /\ ev.h = "restart"
  /\ storage # NoItem

\* C12: a callback run that gets a session but finds no item in
\* sessionStorage sets "OAuth session expired. Please try again.", stops
\* loading, sends no POST and stays on /auth/callback.
C12_EmptyContextExpires ==
  [][ (pc = "getSession" /\ ev'.h = "handleSupabaseCallback"
       /\ ev'.arg.kind = "session" /\ storage = NoItem)
      => /\ error' = <<"OAuth session expired. Please try again.">>
         /\ ~isLoading'
         /\ pc' = "idle"
         /\ callbackUrl' = <<>>
         /\ path' = "/auth/callback"
         /\ gate' = NoGate ]_vars

\* C12 witness: /auth/callback was loaded with a session and nothing was ever
\* stored.
C12_Witness ==
  /\ path = "/auth/callback"
  /\ idSession
  /\ ~handedOff
  /\ storage = NoItem
  /\ ev.fx = <<"getItem", "setError">>
  /\ error = ErrSessionExpired

\* C13: a callback run whose getSession returns an error or no session sets
\* "Failed to authenticate with Google" without calling getItem, leaves
\* sessionStorage as it is, sends no POST and stays on /auth/callback.
C13_NoSessionTouchesNothing ==
  [][ (pc = "getSession" /\ ev'.h = "handleSupabaseCallback"
       /\ ev'.arg.kind \in {"none", "error"})
      => /\ error' = <<"Failed to authenticate with Google">>
         /\ ev'.fx = <<"setError">>
         /\ storage' = storage
         /\ cbParams' = None
         /\ pc' = "idle"
         /\ ~isLoading'
         /\ path' = "/auth/callback" ]_vars

\* C13 witness: getSession returned no session while a request is stored,
\* and the request is still stored.
C13_Witness ==
  /\ path = "/auth/callback"
  /\ ev.h = "handleSupabaseCallback"
  /\ ev.arg.kind = "none"
  /\ error = ErrNoSession
  /\ storage # NoItem
  /\ written # None
  /\ JSONParse(storage) = written[1]

\* C14: while a signInWithOAuth call is outstanding the page is loading and
\* handleLogin cannot be entered: the login button is disabled, so no second
\* call starts and sessionStorage is not written again.
C14_OneSignInOutstanding ==
  pc = "signIn" =>
    /\ isLoading
    /\ path = "/authorize"
    /\ ~ENABLED HandleLogin

\* C14 witness: a sign-in call is outstanding.
C14_Witness ==
  /\ pc = "signIn"
  /\ isLoading
  /\ ev = Event("handleLogin", <<"setItem", "signInWithOAuth">>, NoArg)
  /\ storage # NoItem

\* C15 (as stated): while a verification POST is in flight the Proceed with
\* Payment button cannot be used, so never is more than one verification
\* POST outstanding.
C15_OneVerificationOutstanding ==
  /\ verifying <= 1
  /\ verifying > 0 => ~ENABLED HandlePayment

\* C15, the diverging state: two verification POSTs are outstanding on one
\* visit of the payment page.
C15_TwoVerificationsOutstanding ==
  /\ path = "/payment"
  /\ verifying = 2
  /\ ev.h = "handler"

\* C16 (as stated): every failed signInWithOAuth call, whether it returned
\* an error or threw, sets an error that starts with "Login failed: ".
C16_EveryFailureLoginFailed ==
  [][ (pc = "signIn" /\ ev'.arg.kind \in {"error", "throws"})
      => error' # NoError /\ error'[1] = "Login failed: " ]_vars

\* C16 (amended): a signInWithOAuth call that returns an error sets
\* "Login failed: " followed by the error's message; a call that throws sets
\* "An unexpected error occurred during login".  Both stop loading and start
\* nothing: a sign-in call starts only in handleLogin.
C16_LoginFailureHalts ==
  [][ /\ (pc = "signIn" /\ ev'.arg.kind = "error")
         => error' = <<"Login failed: ">> \o ev'.arg.message
      /\ (pc = "signIn" /\ ev'.arg.kind = "throws")
         => error' = <<"An unexpected error occurred during login">>
      /\ (pc = "signIn" /\ ev'.arg.kind \in {"error", "throws"})
         => /\ pc' = "idle"
            /\ ~isLoading'
            /\ path' = "/authorize"
            /\ storage' = storage
      /\ (pc' = "signIn" /\ pc # "signIn")
         => /\ ev'.h = "handleLogin"
            /\ ev'.fx = <<"setItem", "signInWithOAuth">> ]_vars

\* C16 witness: the sign-in call threw and the page shows the message of the
\* catch.
C16_Witness ==
  /\ path = "/authorize"
  /\ ev.h = "handleLogin"
  /\ ev.arg.kind = "throws"
  /\ error = ErrLoginUnexpected
  /\ ~isLoading

\* C17: in a flow that went from capture through login and callback to the
\* payment page, the payment page's redirectUri is the redirect_uri that
\* handleLogin stored, and the final redirect goes to exactly that value:
\* encodeURIComponent at navigate and the decoding of the query string
\* cancel out.
C17_RedirectUriRoundTrip ==
  [][ /\ (ev'.h = "handleSupabaseCallback" /\ path' = "/payment")
         => /\ written # None
            /\ gate'.uri = written[1].redirect_uri
            /\ Some(redirectUri') = written[1].redirect_uri
      /\ (path' = "/payment" /\ gate'.via = "callback")
         => Some(redirectUri') = gate'.uri
      /\ (path = "/payment" /\ gate.via = "callback" /\ path' = "external")
         => Some(extUrl') = gate.uri ]_vars

\* C17 witness: a redirect_uri holding ? = & + % # and a space was the
\* target of the final redirect.
C17_Witness ==
  /\ path = "external"
  /\ extUrl = UriReserved
  /\ gate = [via |-> "callback", uri |-> Some(UriReserved)]
  /\ ev.h = "handler.then"

\* C18: a callback POST that is rejected, with an error status or with no
\* response (network error, timeout), sets an "Authentication failed" error,
\* stops loading and stays on /auth/callback; a POST is sent only once per
\* run of the handler, which starts only when the page mounts.
C18_PostFailureTerminal ==
  [][ /\ PostSettledWith(PostRejections)
         => /\ error' # NoError
            /\ error'[1] \in {"Authentication failed (",
                              "Authentication failed: "}
            /\ ~isLoading'
            /\ pc' = "idle"
            /\ path' = "/auth/callback"
            /\ gate' = NoGate
      /\ pc' = "post"
         => pc = "getSession" /\ ev'.fx = <<"getItem", "post">>
      /\ pc' = "getSession"
         => ev' = Event("useEffect", <<"getSession">>, NoArg) ]_vars

\* C18 witness: the POST timed out and the callback page shows the error.
C18_Witness ==
  /\ path = "/auth/callback"
  /\ ev.h = "handleSupabaseCallback"
  /\ ev.arg.kind = "timeout"
  /\ error # NoError
  /\ pc = "idle"

\* The order of the flow's stations, and the steps that are the browser
\* loading a URL of the app rather than an action of a component.
Rank(p) ==
  CASE p = "/" -> 0
    [] p = "/authorize" -> 1
    [] p = "provider" -> 2
    [] p = "/auth/callback" -> 3
    [] p = "/payment" -> 4
    [] p = "external" -> 5
UrlLoadStep == ev'.h \in {"useEffect", "load"}

\* C19 (as stated): apart from the error view's Go Back, no action of a
\* component moves the tab to an earlier station of the flow or to "/".
C19_ForwardOnly ==
  [][ (Rank(path') < Rank(path) /\ ~UrlLoadStep) => ev'.h = "restart" ]_vars

\* C19 (amended): an action of a component moves the tab backwards only to
\* "/", and only from the error view's Go Back or from the payment page's
\* Back to Home.
C19_BackOnlyToRoot ==
  [][ (Rank(path') < Rank(path) /\ ~UrlLoadStep)
      => /\ path' = "/"
         /\ \/ ev'.h = "restart" /\ path \in {"/authorize", "/auth/callback"}
            \/ ev'.h = "handleBackToHome" /\ path = "/payment" ]_vars

\* C19 witness: Back to Home was pressed on the payment page of a flow that
\* came through the callback.
C19_Witness ==
  /\ path = "/"
  /\ handedOff
  /\ ev = Event("handleBackToHome", <<"href">>, NoArg)

\* C20: with an error set the page is /authorize or /auth/callback with
\* nothing pending, and the only action of the component that can follow is
\* Go Back: neither handleLogin nor a POST starts.
C20_ErrorViewTerminal ==
  [][ /\ error' # NoError
         => pc' = "idle" /\ path' \in {"/authorize", "/auth/callback"}
      /\ (error # NoError /\ ~UrlLoadStep) => ev'.h = "restart" ]_vars

\* C20 witness: a failed sign-in left a captured request and an error on the
\* /authorize page.
C20_Witness ==
  /\ path = "/authorize"
  /\ error # NoError
  /\ oauthParams # None
  /\ ~isLoading

\* C21: sessionStorage holds one item and setItem replaces it: after a
\* handleLogin for request B while the item of an earlier request A is
\* stored, the item is B's seven fields and nothing else, and what the next
\* callback run reads, echoes on the callback URL and forwards to /payment
\* is B.
C21_LastWriteWins ==
  [][ /\ (ev'.h = "handleLogin" /\ ev'.fx = <<"setItem", "signInWithOAuth">>)
         => /\ Len(storage') = Len(KeyOrder)
            /\ \A i \in 1..Len(KeyOrder) : storage'[i][1] = KeyOrder[i]
            /\ \A k \in Keys : JSONMember(storage', k) = Sent[k]
            /\ written' = oauthParams
      /\ storage' # NoItem
         => /\ written' # None
            /\ \A k \in Keys : JSONMember(storage', k) = written'[1][k]
      /\ pc' = "post"
         => /\ cbParams' = written'
            /\ \A i \in 1..Len(callbackUrl') :
                 Some(callbackUrl'[i][2]) = written'[1][callbackUrl'[i][1]]
      /\ (ev'.h = "handleSupabaseCallback" /\ path' = "/payment")
         => Some(redirectUri') = written[1].redirect_uri ]_vars

\* C21 witness: handleLogin for a request with one redirect_uri replaced the
\* item of a request with another.
C21_Witness ==
  /\ ev.h = "handleLogin"
  /\ ev.arg.kind = "overwrite"
  /\ JSONMember(ev.arg.prior, "redirect_uri") = Some(UriPlain)
  /\ JSONMember(storage, "redirect_uri") = Some(UriReserved)
  /\ JSONMember(ev.arg.prior, "state") # JSONMember(storage, "state")

\* The callback page shows its spinner: no error, no navigation.
CallbackSpinner == path = "/auth/callback" /\ error = NoError

\* C22 (as stated): given that getSession and the POST settle, a run of the
\* callback handler does not stay on the spinner: the getSession wait ends,
\* and from the spinner with getSession answered the page comes to an error,
\* to a navigation, or to a new run.
C22_CallbackRunEnds ==
  /\ (pc = "getSession") ~> (pc # "getSession")
  /\ (CallbackSpinner /\ pc # "getSession")
       ~> (~CallbackSpinner \/ pc = "getSession")

\* C22, the diverging state: in the Oauth.tsx copy the POST completed with a
\* body that has no redirectUrl; the handler has returned and the page is
\* still the spinner.
C22_SpinnerForever ==
  /\ build = "Oauth.tsx"
  /\ CallbackSpinner
  /\ pc = "idle"
  /\ isLoading
  /\ ev.h = "handleSupabaseCallback"
  /\ ev.fx = <<"removeItem">>

\* C22 restricted to the part_001 copy, where it holds.
C22_Part001RunEnds ==
  /\ (build = "part_001" /\ pc = "getSession") ~> (pc # "getSession")
  /\ (build = "part_001" /\ CallbackSpinner /\ pc # "getSession")
       ~> (~CallbackSpinner \/ pc = "getSession")

\* C23: whenever sessionStorage holds the item, the request in it has a
\* non-empty client_id, a non-empty redirect_uri and response_type "code";
\* and the payment page entered from the callback handler has a non-empty
\* redirectUri.
C23_StoredRequestValid ==
  /\ storage # NoItem
       => /\ ~Missing(JSONMember(storage, "client_id"))
          /\ ~Missing(JSONMember(storage, "redirect_uri"))
          /\ JSONMember(storage, "response_type") = Some(<<"code">>)
  /\ (path = "/payment" /\ gate.via = "callback")
       => redirectUri # <<>> /\ ~Missing(gate.uri)

\* C23 witness: an invalid /authorize query was loaded while the item of an
\* earlier, valid request is stored.
C23_Witness ==
  /\ path = "/authorize"
  /\ error = ErrInvalidRequest
  /\ Sent.response_type = Some(<<"token">>)
  /\ storage # NoItem
  /\ JSONMember(storage, "response_type") = Some(<<"code">>)

\* C24: handleLogin has stored the request before signInWithOAuth is called,
\* and a call that returns an error or throws leaves the item as written;
\* from the resulting error state only Go Back changes it.
C24_FailedLoginKeepsWrite ==
  [][ /\ pc' = "signIn"
         => /\ storage' # NoItem
            /\ \A k \in Keys : JSONMember(storage', k) = oauthParams'[1][k]
      /\ (pc = "signIn" /\ ev'.arg.kind \in {"error", "throws"})
         => /\ error' # NoError
            /\ storage' = storage
            /\ storage' # NoItem
            /\ \A k \in Keys : JSONMember(storage', k) = oauthParams'[1][k]
      /\ (path = "/authorize" /\ error # NoError /\ storage' # storage)
         => ev'.h = "restart" /\ storage' = NoItem ]_vars

\* C24 witness: signInWithOAuth returned an error and the request is still
\* stored on the error view.
C24_Witness ==
  /\ path = "/authorize"
  /\ ev.h = "handleLogin"
  /\ ev.arg.kind = "error"
  /\ error = <<"Login failed: ", "provider is not enabled">>
  /\ storage # NoItem
  /\ JSONParse(storage) = oauthParams[1]

\* The steps that are actions of the Payment component.
PaymentStep ==
  ev'.h \in {"handlePayment", "ondismiss", "handler", "handler.then",
             "handleBackToHome"}

\* C25: no action of the payment page (opening or dismissing the checkout,
\* sending the verification POST, its continuation, Back to Home) changes
\* sessionStorage.
C25_PaymentLeavesContext ==
  [][ PaymentStep => path = "/payment" /\ storage' = storage ]_vars

\* C25 witness: a verification was answered on the payment page while an
\* item is stored, and the item is still there.
C25_Witness ==
  /\ storage # NoItem
  /\ written # None
  /\ JSONParse(storage) = written[1]
  /\ ev.h = "handler.then"
  /\ path \in {"/payment", "external"}

====
